---- MODULE Spec2Model ----
(***************************************************************************)
(* Model of utils_cv/classification/model.py: the multi-label accuracy     *)
(* metrics hamming_accuracy and zero_one_accuracy, and the threshold sweep *)
(* get_optimal_threshold.                                                  *)
(*                                                                         *)
(* Real numbers are fixed-point integers in units of 1/Unit (0.5 is 5000). *)
(* Metric results are exact fractions <<numerator, denominator>>.          *)
(* An optional value is <<>> (absent / None) or <<v>>.                     *)
(***************************************************************************)
EXTENDS Integers, Sequences, FiniteSets, TLC

\* ------------------------------------------------------------------ bounds
MaxRows == 2
MaxCols == 2
MaxCells == 4
MaxCands == 3

\* the training loop: epochs run, and training and validation batches an epoch
MaxEpochs == 2
MaxBatches == 3
MaxValid == 1

\* --------------------------------------------------------------- numbers
\* Tensor.float(): the float value 1.0 in fixed point
Unit == 10000

\* a default threshold of 0.5
DefaultThresholdHalf == Unit \div 2

\* default of the `threshold` parameter of both metric functions (0.2)
DefaultThreshold == 2000

\* default of the `sigmoid` parameter of both metric functions
DefaultSigmoid == FALSE

\* raw prediction scores the callers supply (0.0, 0.3, 0.5)
ScoreValues == {0, 3000, 5000}

\* thresholds the callers supply (0.0, 0.1, 0.5, 0.9)
ThresholdValues == {0, 1000, 5000, 9000}

\* Tensor.sigmoid() on the supplied scores, rounded to 4 decimals
Sigmoid(x) ==
  CASE x = 0    -> 5000
    [] x = 3000 -> 5744
    [] x = 5000 -> 6225

None == <<>>

\* -np.inf as a fraction with denominator 0
NegInf == <<-1, 0>>

\* a == b on fractions
RatEq(a, b) == a[1] * b[2] = b[1] * a[2]

\* a > b on fractions and -inf (nothing is greater than itself, every
\* finite number is greater than -inf)
RatGt(a, b) ==
  IF a[2] = 0 THEN FALSE
  ELSE IF b[2] = 0 THEN TRUE
  ELSE a[1] * b[2] > b[1] * a[2]

RatGe(a, b) == RatGt(a, b) \/ (a[2] # 0 /\ b[2] # 0 /\ RatEq(a, b)) \/ (a[2] = 0 /\ b[2] = 0)

\* a - b on fractions
RatSub(a, b) == <<a[1] * b[2] - b[1] * a[2], a[2] * b[2]>>

\* ---------------------------------------------------------------- tensors
\* A tensor is [dtype, data]: data is a sequence of rows; a bool tensor holds
\* 0/1, a float tensor fixed-point values, a long tensor integers.
Tensor(dtype, data) == [dtype |-> dtype, data |-> data]

NumRows(t) == Len(t.data)
NumCols(t) == Len(t.data[1])

\* y_pred.sigmoid()
sigmoid_(t) ==
  Tensor("float", [i \in 1..NumRows(t) |-> [j \in 1..NumCols(t) |-> Sigmoid(t.data[i][j])]])

\* y_pred > threshold
gt_(t, threshold) ==
  Tensor("bool", [i \in 1..NumRows(t) |-> [j \in 1..NumCols(t) |->
     IF t.data[i][j] > threshold THEN 1 ELSE 0]])

\* the real value of an entry, in fixed point
Value(dtype, x) == IF dtype = "float" THEN x ELSE x * Unit

\* y_pred.float()
float_(t) ==
  Tensor("float", [i \in 1..NumRows(t) |-> [j \in 1..NumCols(t) |->
     Value(t.dtype, t.data[i][j])]])

Shape(t) == <<NumRows(t), NumCols(t)>>

\* torch broadcasting: two shapes go together when, in each dimension, the
\* sizes are equal or one of them is 1 (a tensor of lower rank counts as
\* having size 1 in the dimensions it lacks)
Broadcastable(a, b) ==
  \A d \in 1..2 : Shape(a)[d] = Shape(b)[d] \/ Shape(a)[d] = 1 \/ Shape(b)[d] = 1

Max(m, n) == IF m >= n THEN m ELSE n

\* the entry of t that position (i, j) of the broadcast result reads
At(t, i, j) ==
  t.data[IF NumRows(t) = 1 THEN 1 ELSE i][IF NumCols(t) = 1 THEN 1 ELSE j]

\* a != b, elementwise over the broadcast shape of a and b
ne_(a, b) ==
  Tensor("bool", [i \in 1..Max(NumRows(a), NumRows(b)) |->
                   [j \in 1..Max(NumCols(a), NumCols(b)) |->
     IF Value(a.dtype, At(a, i, j)) # Value(b.dtype, At(b, i, j)) THEN 1 ELSE 0]])

RECURSIVE SumSeq(_)
SumSeq(s) == IF s = <<>> THEN 0 ELSE s[1] + SumSeq(Tail(s))

\* t.sum(dim=1): one count per row
sum_dim1(t) == [i \in 1..NumRows(t) |-> SumSeq(t.data[i])]

\* t.sum()
sum_(t) == SumSeq(sum_dim1(t))

\* torch.ones(y_pred.shape).sum()
ones_sum(t) == NumRows(t) * NumCols(t)

\* Python truth value of the threshold in `if threshold:`
Truthy(threshold) == threshold # 0

\* the first two statements of both metric functions: the local y_pred at
\* the point where it is compared with y_true
Preprocess(y_pred, threshold, sigmoid) ==
  LET p1 == IF sigmoid THEN sigmoid_(y_pred) ELSE y_pred
  IN  IF Truthy(threshold) THEN gt_(p1, threshold) ELSE p1

\* hamming_accuracy counting the matching positions instead of the wrong ones
hamming_accuracy_eq(y_pred, y_true, threshold, sigmoid) ==
  LET p == Preprocess(y_pred, threshold, sigmoid)
  IN  RatSub(<<1, 1>>, <<ones_sum(p) - sum_(ne_(float_(p), y_true)), ones_sum(p)>>)

\* `1 - (y_pred.float() != y_true).sum() / torch.ones(y_pred.shape).sum()`,
\* the division being the true division of the two sums
hamming_accuracy(y_pred, y_true, threshold, sigmoid) ==
  LET p == Preprocess(y_pred, threshold, sigmoid)
  IN  RatSub(<<1, 1>>, <<sum_(ne_(float_(p), y_true)), ones_sum(p)>>)

\* zero_one_accuracy without `zero_one_preds[zero_one_preds >= 1] = 1`
zero_one_accuracy_noclamp(y_pred, y_true, threshold, sigmoid) ==
  LET p == Preprocess(y_pred, threshold, sigmoid)
      counts == sum_dim1(ne_(float_(p), y_true))
      num_labels == NumCols(p)
      rows == (NumRows(p) * NumCols(p)) \div num_labels
  IN  RatSub(<<1, 1>>, <<SumSeq(counts), rows>>)

zero_one_accuracy(y_pred, y_true, threshold, sigmoid) ==
  LET p == Preprocess(y_pred, threshold, sigmoid)
      counts == sum_dim1(ne_(float_(p), y_true))
      zero_one_preds == [i \in 1..Len(counts) |-> IF counts[i] >= 1 THEN 1 ELSE counts[i]]
      num_labels == NumCols(p)
      rows == (NumRows(p) * NumCols(p)) \div num_labels
  IN  RatSub(<<1, 1>>, <<SumSeq(zero_one_preds), rows>>)

\* the caller's tensor after a metric function ran with every tensor
\* operation done in place on its argument
ArgAfterCallInPlace(y_pred, threshold, sigmoid) == Preprocess(y_pred, threshold, sigmoid)

\* the caller's tensor passed as y_pred after a metric function ran: the
\* body rebinds its local to the new tensors `.sigmoid()`, `>` and `.float()`
\* build, and its one indexed assignment writes into the tensor that
\* `.sum(dim=1)` returned
ArgAfterCall(y_pred, threshold, sigmoid) == y_pred

\* binding of an optional argument to its parameter
Bind(arg, default) == IF arg = None THEN default ELSE arg[1]

\* ------------------------------------------------------------------ state
VARIABLES
  P,                  \* the caller's prediction matrix (float tensor)
  Y,                  \* the caller's ground-truth matrix (long tensor of 0/1)
  threshold_arg,      \* the threshold the caller passes, None when omitted
  sigmoid_arg,        \* the sigmoid flag the caller passes, None when omitted
  hamming,            \* the call of hamming_accuracy: [pc, y_pred, ret]
  zero_one,           \* the call of zero_one_accuracy: [pc, y_pred, ret]
  metric_function,    \* get_optimal_threshold: the metric function passed
  stub_scores,        \* the score a caller-written metric gives each threshold
  thresholds_arg,     \* the candidate sequence the caller passes, None when omitted
  thresholds,         \* get_optimal_threshold: the candidate sequence
  idx,                \* candidates the for loop has consumed
  metric,             \* local: the score of the last candidate, None before
  scores,             \* the scores metric_function has returned, in call order
  optimal_threshold,  \* local
  metric_max,         \* local
  search_pc,          \* "idle", "scan", "done" (returned) or "raised"
  returned            \* the value get_optimal_threshold returned

\* utils_cv/common/azureml.py
VARIABLES
  workspaces,         \* the names of the workspaces that exist in the subscription
  workspace_name,     \* get_or_create_workspace: parameter
  ws_pc,              \* get_or_create_workspace: position
  ws,                 \* get_or_create_workspace: local, None while unbound
  auth_pc,            \* get_auth: position
  auth_type,          \* get_auth: local, None while unbound
  auth_ret,           \* the value the last call of get_auth returned
  auth_calls          \* the SDK calls the current get_auth made, with outcomes

\* utils_cv/common/data.py, unzip_url
VARIABLES
  dirs,               \* the directories that exist
  files,              \* the files that exist
  fs0,                \* the directories and files that existed at the call
  fpath,              \* parameter, None when omitted
  dest,               \* parameter, None when omitted
  exist_ok,           \* parameter
  unzip_pc,           \* position
  unzip_log,          \* the downloads and extractions the call has done
  unzip_exc,          \* the exception the call raised
  unzip_ret           \* the value the call returned

\* utils_cv/classification/model.py, TrainMetricsRecorder
VARIABLES
  n_batch,            \* self.n_batch (before __init__: the argument)
  valid_ds,           \* whether learn.data has a validation set
  metrics,            \* the metric functions the training loop passes
  has_metrics,        \* self.has_metrics
  has_val,            \* self.has_val
  y,                  \* self.y
  out,                \* self.out
  train_metrics,      \* self.train_metrics
  valid_metrics,      \* self.valid_metrics
  epoch,              \* training loop: epochs begun since construction
  num_batch,          \* training loop: training batches done in this epoch
  num_valid,          \* training loop: validation batches done in this epoch
  epochs_done,        \* training loop: epochs completed since on_train_begin
  rec_pc              \* where the training loop is

authVars == <<workspaces, workspace_name, ws_pc, ws, auth_pc, auth_type, auth_ret, auth_calls>>

zipVars == <<dirs, files, fs0, fpath, dest, exist_ok, unzip_pc, unzip_log, unzip_exc, unzip_ret>>

recVars == <<n_batch, valid_ds, metrics, has_metrics, has_val, y, out, train_metrics,
             valid_metrics, epoch, num_batch, num_valid, epochs_done, rec_pc>>

helperVars == <<authVars, zipVars, recVars>>

metricVars == <<threshold_arg, sigmoid_arg, hamming, zero_one>>

searchVars == <<metric_function, stub_scores, thresholds_arg, thresholds, idx, metric, scores,
                optimal_threshold, metric_max, search_pc, returned>>

vars == <<P, Y, metricVars, searchVars, helperVars>>

\* the shapes (n, k) of at most rows x cols that hold at most cells entries
Shapes(rows, cols, cells) ==
  {shape \in (1..rows) \X (1..cols) : shape[1] * shape[2] <= cells}

\* the batch shapes get_optimal_threshold is called with
SearchShapes == {<<1, 2>>, <<2, 1>>}

Matrices(shape, values) == [1..shape[1] -> [1..shape[2] -> values]]

\* every (P, Y) pair of one shape among shapes
InputPairs(shapes) ==
  UNION {{<<Tensor("float", p), Tensor("long", t)>> :
            p \in Matrices(shape, ScoreValues), t \in Matrices(shape, {0, 1})} :
         shape \in shapes}

Idle == [pc |-> "idle", y_pred |-> None, ret |-> None]

\* scores (in tenths) a caller-written metric function returns
StubScores == {4, 6, 8}

NoStub == [t \in ThresholdValues |-> 4]

\* `optimal_threshold = None`
InitialOptimalThreshold == None

\* a running maximum that starts at 1.0
InitialMetricMaxOne == <<1, 1>>

\* `metric_max = -np.inf`
InitialMetricMax == NegInf

\* np.linspace(start, stop, num): num evenly spaced values, both ends included
linspace(start, stop, num) ==
  [i \in 1..num |-> start + ((i - 1) * (stop - start)) \div (num - 1)]

\* the number of samples of the default candidate sequence
LinspaceNum == 21

\* 10 evenly spaced candidates strictly inside (0, 1)
DefaultThresholdsOpen == [i \in 1..10 |-> (i * Unit) \div 11]

\* default of the `thresholds` parameter: np.linspace(0, 1, 21)
DefaultThresholds == linspace(0, Unit, LinspaceNum)

SearchIdle ==
  /\ metric_function = "none"
  /\ stub_scores = NoStub
  /\ thresholds_arg = None
  /\ thresholds = <<>>
  /\ idx = 0
  /\ metric = None
  /\ scores = <<>>
  /\ optimal_threshold = None
  /\ metric_max = NegInf
  /\ search_pc = "idle"
  /\ returned = None

MetricIdle ==
  /\ threshold_arg = None
  /\ sigmoid_arg = None
  /\ hamming = Idle
  /\ zero_one = Idle

AuthIdle ==
  /\ workspaces = {}
  /\ workspace_name = "none"
  /\ ws_pc = "idle"
  /\ ws = None
  /\ auth_pc = "idle"
  /\ auth_type = None
  /\ auth_ret = None
  /\ auth_calls = <<>>

UnzipIdle ==
  /\ dirs = {}
  /\ files = {}
  /\ fs0 = [dirs |-> {}, files |-> {}]
  /\ fpath = None
  /\ dest = None
  /\ exist_ok = FALSE
  /\ unzip_pc = "idle"
  /\ unzip_log = <<>>
  /\ unzip_exc = None
  /\ unzip_ret = None

RecorderIdle ==
  /\ n_batch = None
  /\ valid_ds = FALSE
  /\ metrics = <<>>
  /\ has_metrics = None
  /\ has_val = None
  /\ y = None
  /\ out = None
  /\ train_metrics = None
  /\ valid_metrics = None
  /\ epoch = 0
  /\ num_batch = 0
  /\ num_valid = 0
  /\ epochs_done = 0
  /\ rec_pc = "idle"

\* no metric function and no sweep is called
MetricsUnused ==
  /\ P = Tensor("float", <<<<0>>>>)
  /\ Y = Tensor("long", <<<<0>>>>)
  /\ MetricIdle
  /\ SearchIdle

\* ------------------------------------------- the metric functions, called
Init ==
  /\ \E pair \in InputPairs(Shapes(MaxRows, MaxCols, MaxCells)) : P = pair[1] /\ Y = pair[2]
  /\ threshold_arg \in {None} \cup {<<t>> : t \in {0, 5000}}
  /\ sigmoid_arg \in {None, <<TRUE>>, <<FALSE>>}
  /\ hamming = Idle
  /\ zero_one = Idle
  /\ SearchIdle
  /\ AuthIdle /\ UnzipIdle /\ RecorderIdle

Returned(y_pred, ret) == [pc |-> "returned", y_pred |-> y_pred, ret |-> ret]

\* the comparison `y_pred.float() != y_true` raised a RuntimeError
Raised(y_pred) == [pc |-> "raised", y_pred |-> y_pred, ret |-> None]

CallHamming ==
  /\ hamming.pc = "idle"
  /\ LET threshold == Bind(threshold_arg, DefaultThreshold)
         sigmoid == Bind(sigmoid_arg, DefaultSigmoid)
     IN  /\ hamming' = IF Broadcastable(P, Y)
                       THEN Returned(Preprocess(P, threshold, sigmoid),
                                     hamming_accuracy(P, Y, threshold, sigmoid))
                       ELSE Raised(Preprocess(P, threshold, sigmoid))
         /\ P' = ArgAfterCall(P, threshold, sigmoid)
  /\ UNCHANGED <<Y, threshold_arg, sigmoid_arg, zero_one, searchVars, helperVars>>

CallZeroOne ==
  /\ zero_one.pc = "idle"
  /\ LET threshold == Bind(threshold_arg, DefaultThreshold)
         sigmoid == Bind(sigmoid_arg, DefaultSigmoid)
     IN  /\ zero_one' = IF Broadcastable(P, Y)
                        THEN Returned(Preprocess(P, threshold, sigmoid),
                                      zero_one_accuracy(P, Y, threshold, sigmoid))
                        ELSE Raised(Preprocess(P, threshold, sigmoid))
         /\ P' = ArgAfterCall(P, threshold, sigmoid)
  /\ UNCHANGED <<Y, threshold_arg, sigmoid_arg, hamming, searchVars, helperVars>>

Next == CallHamming \/ CallZeroOne

Spec == Init /\ [][Next]_vars

\* the metric functions called with a P and a Y of any two shapes
ShapeInit ==
  /\ \E ps, ys \in Shapes(MaxRows, MaxCols, MaxCells) :
       /\ P \in {Tensor("float", d) : d \in Matrices(ps, ScoreValues)}
       /\ Y \in {Tensor("long", d) : d \in Matrices(ys, {0, 1})}
  /\ threshold_arg \in {None} \cup {<<t>> : t \in {0, 5000}}
  /\ sigmoid_arg \in {None, <<TRUE>>, <<FALSE>>}
  /\ hamming = Idle
  /\ zero_one = Idle
  /\ SearchIdle
  /\ AuthIdle /\ UnzipIdle /\ RecorderIdle

SpecShapes == ShapeInit /\ [][Next]_vars

\* -------------------------------------------------- get_optimal_threshold
\* every sequence over s of length at most n
SeqsUpTo(s, n) == UNION {[1..m -> s] : m \in 0..n}

\* `metric_function(y_pred, y_true, threshold=threshold)`: the sigmoid
\* parameter keeps its default
CallMetric(f, table, y_pred, y_true, threshold) ==
  CASE f = "hamming_accuracy"  -> hamming_accuracy(y_pred, y_true, threshold, DefaultSigmoid)
    [] f = "zero_one_accuracy" -> zero_one_accuracy(y_pred, y_true, threshold, DefaultSigmoid)
    [] f = "stub"              -> <<table[threshold], 10>>

\* `if metric < metric_max`
IsBetterLess(m, best) == RatGt(best, m)

\* `if metric >= metric_max`
IsBetterOrEqual(m, best) == RatGe(m, best)

\* a scan that replaces its best at every candidate
IsBetterAlways(m, best) == TRUE

\* `if metric > metric_max`
IsBetter(m, best) == RatGt(m, best)

SearchInit ==
  /\ \/ /\ metric_function \in {"hamming_accuracy", "zero_one_accuracy"}
        /\ stub_scores = NoStub
        /\ \E pair \in InputPairs(SearchShapes) : P = pair[1] /\ Y = pair[2]
        /\ thresholds_arg \in {None} \cup {<<s>> : s \in SeqsUpTo(ThresholdValues, MaxCands)}
     \/ /\ metric_function = "stub"
        /\ stub_scores \in [ThresholdValues -> StubScores]
        /\ P = Tensor("float", <<<<0>>>>)
        /\ Y = Tensor("long", <<<<0>>>>)
        /\ thresholds_arg \in {<<s>> : s \in SeqsUpTo(ThresholdValues, MaxCands)}
  /\ thresholds = Bind(thresholds_arg, DefaultThresholds)
  /\ idx = 0
  /\ metric = None
  /\ scores = <<>>
  /\ optimal_threshold = InitialOptimalThreshold
  /\ metric_max = InitialMetricMax
  /\ search_pc = "scan"
  /\ returned = None
  /\ MetricIdle
  /\ AuthIdle /\ UnzipIdle /\ RecorderIdle

\* one iteration of `for threshold in thresholds`
SearchIter ==
  /\ search_pc = "scan"
  /\ idx < Len(thresholds)
  /\ LET threshold == thresholds[idx + 1]
         m == CallMetric(metric_function, stub_scores, P, Y, threshold)
     IN  /\ metric' = m
         /\ scores' = Append(scores, m)
         /\ P' = IF metric_function = "stub" THEN P
                 ELSE ArgAfterCall(P, threshold, DefaultSigmoid)
         /\ IF IsBetter(m, metric_max)
            THEN /\ metric_max' = m
                 /\ optimal_threshold' = <<threshold>>
            ELSE UNCHANGED <<metric_max, optimal_threshold>>
  /\ idx' = idx + 1
  /\ UNCHANGED <<Y, metricVars, metric_function, stub_scores, thresholds_arg,
                 thresholds, search_pc, returned, helperVars>>

\* the loop is exhausted: `return optimal_threshold`
SearchReturn ==
  /\ search_pc = "scan"
  /\ idx = Len(thresholds)
  /\ returned' = optimal_threshold
  /\ search_pc' = "done"
  /\ UNCHANGED <<P, Y, metricVars, metric_function, stub_scores, thresholds_arg,
                 thresholds, idx, metric, scores, optimal_threshold, metric_max,
                 helperVars>>

SearchNext == SearchIter \/ SearchReturn

SpecSearch == SearchInit /\ [][SearchNext]_vars

\* direct calls of the metric functions and a sweep on the same P and Y, in
\* any order
PureInit ==
  /\ \E pair \in InputPairs(SearchShapes) : P = pair[1] /\ Y = pair[2]
  /\ threshold_arg \in {None} \cup {<<t>> : t \in {0, 5000}}
  /\ sigmoid_arg \in {None, <<TRUE>>, <<FALSE>>}
  /\ hamming = Idle
  /\ zero_one = Idle
  /\ metric_function \in {"hamming_accuracy", "zero_one_accuracy"}
  /\ stub_scores = NoStub
  /\ thresholds_arg \in {<<s>> : s \in SeqsUpTo({0, 5000}, 2)}
  /\ thresholds = Bind(thresholds_arg, DefaultThresholds)
  /\ idx = 0
  /\ metric = None
  /\ scores = <<>>
  /\ optimal_threshold = InitialOptimalThreshold
  /\ metric_max = InitialMetricMax
  /\ search_pc = "scan"
  /\ returned = None
  /\ AuthIdle /\ UnzipIdle /\ RecorderIdle

PureNext == CallHamming \/ CallZeroOne \/ SearchIter \/ SearchReturn

SpecPure == PureInit /\ [][PureNext]_vars

\* ------------------------------------- get_auth, get_or_create_workspace
WorkspaceNames == {"ws1", "ws2"}

CliAuth == <<"AzureCliAuthentication">>
InteractiveAuth == <<"InteractiveLoginAuthentication">>

\* what a call into the SDK can do: return, or raise an exception of the
\* class AuthenticationException or of another class
SdkOutcomes == {"ok", "AuthenticationException", "Exception"}

Call(name, outcome) == [call |-> name, outcome |-> outcome]

\* a handler `except:` that catches every exception
CaughtAny(exc) == TRUE

\* get_auth: `except AuthenticationException:`
Caught(exc) == exc = "AuthenticationException"

\* as far as the try block gets when the constructor does ctor and the
\* header request does header
TryBlock(ctor, header) ==
  IF ctor = "ok"
    THEN <<Call("AzureCliAuthentication", ctor), Call("get_authentication_header", header)>>
    ELSE <<Call("AzureCliAuthentication", ctor)>>

Last(s) == s[Len(s)]

\* get_auth: the try block, auth_type = AzureCliAuthentication();
\* auth_type.get_authentication_header()
GetAuthTry ==
  /\ auth_pc = "try"
  /\ \E ctor, header \in SdkOutcomes :
       LET done == TryBlock(ctor, header)
           exc == Last(done).outcome
       IN  /\ auth_calls' = done
           /\ auth_type' = IF ctor = "ok" THEN CliAuth ELSE None
           /\ auth_pc' = IF exc = "ok" THEN "return"
                         ELSE IF Caught(exc) THEN "except" ELSE "raised"
  /\ UNCHANGED <<workspaces, workspace_name, ws_pc, ws, auth_ret>>
  /\ UNCHANGED <<P, Y, metricVars, searchVars, zipVars, recVars>>

\* get_auth: the handler, auth_type = InteractiveLoginAuthentication()
GetAuthExcept ==
  /\ auth_pc = "except"
  /\ \E ctor \in SdkOutcomes :
       /\ auth_calls' = Append(auth_calls, Call("InteractiveLoginAuthentication", ctor))
       /\ auth_type' = IF ctor = "ok" THEN InteractiveAuth ELSE auth_type
       /\ auth_pc' = IF ctor = "ok" THEN "return" ELSE "raised"
  /\ UNCHANGED <<workspaces, workspace_name, ws_pc, ws, auth_ret>>
  /\ UNCHANGED <<P, Y, metricVars, searchVars, zipVars, recVars>>

\* get_auth: return auth_type
GetAuthReturn ==
  /\ auth_pc = "return"
  /\ auth_ret' = auth_type
  /\ auth_pc' = "returned"
  /\ UNCHANGED <<workspaces, workspace_name, ws_pc, ws, auth_type, auth_calls>>
  /\ UNCHANGED <<P, Y, metricVars, searchVars, zipVars, recVars>>

\* the frame of a new call of get_auth
EnterGetAuth ==
  /\ auth_pc' = "try"
  /\ auth_type' = None
  /\ auth_ret' = None
  /\ auth_calls' = <<>>

\* get_or_create_workspace: the try block evaluates the argument get_auth()
WsTry ==
  /\ ws_pc = "try"
  /\ ws_pc' = "try_get"
  /\ EnterGetAuth
  /\ UNCHANGED <<workspaces, workspace_name, ws>>
  /\ UNCHANGED <<P, Y, metricVars, searchVars, zipVars, recVars>>

\* ws = Workspace.get(name, subscription_id, resource_group, auth); any
\* exception, get_auth's included, goes to `except Exception`
WsGet ==
  /\ ws_pc = "try_get"
  /\ \/ /\ auth_pc = "returned"
        /\ \/ /\ workspace_name \in workspaces
              /\ ws' = <<workspace_name>>
              /\ ws_pc' = "returned"
           \/ /\ ws' = ws
              /\ ws_pc' = "except"
     \/ /\ auth_pc = "raised"
        /\ ws' = ws
        /\ ws_pc' = "except"
  /\ UNCHANGED <<workspaces, workspace_name, auth_pc, auth_type, auth_ret, auth_calls>>
  /\ UNCHANGED <<P, Y, metricVars, searchVars, zipVars, recVars>>

\* the handler prints and evaluates the argument get_auth() again
WsExcept ==
  /\ ws_pc = "except"
  /\ ws_pc' = "except_create"
  /\ EnterGetAuth
  /\ UNCHANGED <<workspaces, workspace_name, ws>>
  /\ UNCHANGED <<P, Y, metricVars, searchVars, zipVars, recVars>>

\* ws = Workspace.create(name, ..., create_resource_group=True, location, auth)
WsCreate ==
  /\ ws_pc = "except_create"
  /\ \/ /\ auth_pc = "returned"
        /\ \/ /\ workspace_name \notin workspaces
              /\ workspaces' = workspaces \cup {workspace_name}
              /\ ws' = <<workspace_name>>
              /\ ws_pc' = "returned"
           \/ /\ UNCHANGED <<workspaces, ws>>
              /\ ws_pc' = "raised"
     \/ /\ auth_pc = "raised"
        /\ UNCHANGED <<workspaces, ws>>
        /\ ws_pc' = "raised"
  /\ UNCHANGED <<workspace_name, auth_pc, auth_type, auth_ret, auth_calls>>
  /\ UNCHANGED <<P, Y, metricVars, searchVars, zipVars, recVars>>

AuthInit ==
  /\ workspaces \in SUBSET WorkspaceNames
  /\ workspace_name \in WorkspaceNames
  /\ ws_pc = "try"
  /\ ws = None
  /\ auth_pc = "idle"
  /\ auth_type = None
  /\ auth_ret = None
  /\ auth_calls = <<>>
  /\ MetricsUnused /\ UnzipIdle /\ RecorderIdle

AuthNext ==
  \/ GetAuthTry
  \/ GetAuthExcept
  \/ GetAuthReturn
  \/ WsTry
  \/ WsGet
  \/ WsExcept
  \/ WsCreate

SpecAuth == AuthInit /\ [][AuthNext]_vars

\* ------------------------------------------------------------ unzip_url
\* data_path(): the data directory of the package
DataDir == <<"data">>

\* the directories a caller passes as fpath or dest
CallerDirs == {<<"a">>, <<"b">>}

\* _get_file_name(url) and fname.split(".")[0] for the url of the call
FName == "x.zip"
FNameWithoutExtension == "x"

\* os.path.join(directory, name)
join(directory, name) == Append(directory, name)

\* unzip_url: zip_file and unzipped_dir, once fpath and dest are bound
ZipFilePath == join(fpath[1], FName)
UnzippedDir == join(dest[1], FNameWithoutExtension)

\* a helper that raises whatever exist_ok is
raise_file_exists_error_always(ok) == TRUE

\* _raise_file_exists_error(path) raises: `if not exist_ok: raise ...`
raise_file_exists_error(ok) == ~ok

\* the file systems unzip_url can find: each directory absent, or present
\* with or without the zip file and the unzipped directory
FileSystems ==
  {[dirs |-> present \cup {join(d, FNameWithoutExtension) : d \in unzipped},
    files |-> {join(d, FName) : d \in zipped}] :
     <<present, zipped, unzipped>> \in
       {t \in (SUBSET (CallerDirs \cup {DataDir})) \X (SUBSET (CallerDirs \cup {DataDir}))
                \X (SUBSET (CallerDirs \cup {DataDir})) :
          t[2] \subseteq t[1] /\ t[3] \subseteq t[1]}}

UnzipInit ==
  /\ fs0 \in FileSystems
  /\ dirs = fs0.dirs
  /\ files = fs0.files
  /\ fpath \in {None} \cup {<<d>> : d \in CallerDirs}
  /\ dest \in {None} \cup {<<d>> : d \in CallerDirs}
  /\ exist_ok \in BOOLEAN
  /\ unzip_pc = "defaults"
  /\ unzip_log = <<>>
  /\ unzip_exc = None
  /\ unzip_ret = None
  /\ MetricsUnused /\ AuthIdle /\ RecorderIdle

\* the three `if ... is None` statements; data_path() makes the data
\* directory
UnzipDefaults ==
  /\ unzip_pc = "defaults"
  /\ IF fpath = None /\ dest = None
       THEN /\ fpath' = <<DataDir>>
            /\ dest' = <<DataDir>>
            /\ dirs' = dirs \cup {DataDir}
       ELSE /\ fpath' = IF fpath = None THEN dest ELSE fpath
            /\ dest' = IF dest = None THEN fpath ELSE dest
            /\ dirs' = dirs
  /\ unzip_pc' = "makedirs"
  /\ UNCHANGED <<files, fs0, exist_ok, unzip_log, unzip_exc, unzip_ret>>
  /\ UNCHANGED <<P, Y, metricVars, searchVars, authVars, recVars>>

\* os.makedirs(dest, exist_ok=True); os.makedirs(fpath, exist_ok=True)
UnzipMakedirs ==
  /\ unzip_pc = "makedirs"
  /\ dirs' = dirs \cup {dest[1], fpath[1]}
  /\ unzip_pc' = "zip_file"
  /\ UNCHANGED <<files, fs0, fpath, dest, exist_ok, unzip_log, unzip_exc, unzip_ret>>
  /\ UNCHANGED <<P, Y, metricVars, searchVars, authVars, recVars>>

\* if zip_file.is_file(): _raise_file_exists_error(zip_file)
\* else: r = requests.get(url); f = open(zip_file, "wb"); f.write(r.content)
UnzipZipFile ==
  /\ unzip_pc = "zip_file"
  /\ IF ZipFilePath \in files
       THEN /\ IF raise_file_exists_error(exist_ok)
                 THEN /\ unzip_exc' = <<"FileExistsError", ZipFilePath>>
                      /\ unzip_pc' = "raised"
                 ELSE /\ unzip_exc' = unzip_exc
                      /\ unzip_pc' = "unzipped_dir"
            /\ UNCHANGED <<files, unzip_log>>
       ELSE /\ files' = files \cup {ZipFilePath}
            /\ unzip_log' = Append(unzip_log, <<"download", ZipFilePath>>)
            /\ unzip_exc' = unzip_exc
            /\ unzip_pc' = "unzipped_dir"
  /\ UNCHANGED <<dirs, fs0, fpath, dest, exist_ok, unzip_ret>>
  /\ UNCHANGED <<P, Y, metricVars, searchVars, authVars, recVars>>

\* if unzipped_dir.is_dir(): _raise_file_exists_error(unzipped_dir)
\* else: z = ZipFile(zip_file, "r"); z.extractall(fpath); the archive holds
\* one folder, named as the archive
UnzipUnzippedDir ==
  /\ unzip_pc = "unzipped_dir"
  /\ IF UnzippedDir \in dirs
       THEN /\ IF raise_file_exists_error(exist_ok)
                 THEN /\ unzip_exc' = <<"FileExistsError", UnzippedDir>>
                      /\ unzip_pc' = "raised"
                 ELSE /\ unzip_exc' = unzip_exc
                      /\ unzip_pc' = "return"
            /\ UNCHANGED <<dirs, unzip_log>>
       ELSE /\ dirs' = dirs \cup {join(fpath[1], FNameWithoutExtension)}
            /\ unzip_log' = Append(unzip_log, <<"extractall", fpath[1]>>)
            /\ unzip_exc' = unzip_exc
            /\ unzip_pc' = "return"
  /\ UNCHANGED <<files, fs0, fpath, dest, exist_ok, unzip_ret>>
  /\ UNCHANGED <<P, Y, metricVars, searchVars, authVars, recVars>>

\* return os.path.realpath(unzipped_dir)
UnzipReturn ==
  /\ unzip_pc = "return"
  /\ unzip_ret' = <<UnzippedDir>>
  /\ unzip_pc' = "returned"
  /\ UNCHANGED <<dirs, files, fs0, fpath, dest, exist_ok, unzip_log, unzip_exc>>
  /\ UNCHANGED <<P, Y, metricVars, searchVars, authVars, recVars>>

UnzipNext ==
  \/ UnzipDefaults
  \/ UnzipMakedirs
  \/ UnzipZipFile
  \/ UnzipUnzippedDir
  \/ UnzipReturn

SpecUnzip == UnzipInit /\ [][UnzipNext]_vars

\* ------------------------------------------------- TrainMetricsRecorder
\* the n_batch a caller passes to the constructor
NBatchArgs == {None} \cup {<<k>> : k \in {-1, 0, 1, 2}}

\* the metric functions of the learner
MetricLists == {<<>>, <<"accuracy">>, <<"accuracy", "error_rate">>}

\* a batch of the training loop, and its tensors after .cpu()
Batch(e, train, index) == [epoch |-> e, train |-> train, index |-> index]
Target(b) == [tensor |-> "last_target", batch |-> b]
Output(b) == [tensor |-> "last_output", batch |-> b]

\* on_batch_end with `self.n_batch >= num_batch`
ShouldRecordUpTo(train, nb, n, hm) == train /\ (n = None \/ n[1] >= nb) /\ hm

\* on_batch_end: `train and (self.n_batch is None or self.n_batch > num_batch)
\* and self.has_metrics`
ShouldRecord(train, nb, n, hm) == train /\ (n = None \/ n[1] > nb) /\ hm

\* on_epoch_end: m_fn(torch.stack(self.out), torch.stack(self.y))
MetricValue(m_fn, outs, ys) == [metric |-> m_fn, out |-> outs, y |-> ys]

\* on_epoch_end computing only the first metric
tr_lm_first(ms, outs, ys) == [i \in 1..1 |-> MetricValue(ms[i], outs, ys)]

\* on_epoch_end: tr_lm = [m_fn(torch.stack(self.out), torch.stack(self.y))
\* for m_fn in metrics]
tr_lm(ms, outs, ys) == [i \in 1..Len(ms) |-> MetricValue(ms[i], outs, ys)]

RecorderInit ==
  /\ n_batch \in NBatchArgs
  /\ valid_ds \in BOOLEAN
  /\ metrics \in MetricLists
  /\ has_metrics = None
  /\ has_val = None
  /\ y = None
  /\ out = None
  /\ train_metrics = None
  /\ valid_metrics = None
  /\ epoch = 0
  /\ num_batch = 0
  /\ num_valid = 0
  /\ epochs_done = 0
  /\ rec_pc = "new"
  /\ MetricsUnused /\ AuthIdle /\ UnzipIdle

\* __init__: `if n_batch: assert n_batch > 0`; self.n_batch = n_batch
RecorderNew ==
  /\ rec_pc = "new"
  /\ rec_pc' = IF n_batch # None /\ n_batch[1] # 0 /\ ~(n_batch[1] > 0)
                 THEN "raised" ELSE "constructed"
  /\ UNCHANGED <<n_batch, valid_ds, metrics, has_metrics, has_val, y, out, train_metrics,
                 valid_metrics, epoch, num_batch, num_valid, epochs_done>>
  /\ UNCHANGED <<P, Y, metricVars, searchVars, authVars, zipVars>>

\* on_train_begin, at the start of every fit
OnTrainBegin ==
  /\ rec_pc \in {"constructed", "fit"}
  /\ epoch < MaxEpochs
  /\ has_metrics' = (Len(metrics) > 0)
  /\ has_val' = valid_ds
  /\ valid_metrics' = <<>>
  /\ train_metrics' = <<>>
  /\ epochs_done' = 0
  /\ rec_pc' = "fit"
  /\ UNCHANGED <<n_batch, valid_ds, metrics, y, out, epoch, num_batch, num_valid>>
  /\ UNCHANGED <<P, Y, metricVars, searchVars, authVars, zipVars>>

\* on_epoch_begin: self.y = []; self.out = []; the loop restarts its counts
OnEpochBegin ==
  /\ rec_pc = "fit"
  /\ epoch < MaxEpochs
  /\ y' = <<>>
  /\ out' = <<>>
  /\ epoch' = epoch + 1
  /\ num_batch' = 0
  /\ num_valid' = 0
  /\ rec_pc' = "epoch"
  /\ UNCHANGED <<n_batch, valid_ds, metrics, has_metrics, has_val, train_metrics,
                 valid_metrics, epochs_done>>
  /\ UNCHANGED <<P, Y, metricVars, searchVars, authVars, zipVars>>

\* on_batch_end(train, num_batch, last_target, last_output): the loop runs
\* the training batches, then the validation batches with train = False
OnBatchEnd ==
  /\ rec_pc = "epoch"
  /\ \E train \in BOOLEAN :
       /\ train => (num_batch < MaxBatches /\ num_valid = 0)
       /\ ~train => (valid_ds /\ num_valid < MaxValid)
       /\ LET b == Batch(epoch, train, IF train THEN num_batch ELSE num_valid)
          IN  IF ShouldRecord(train, num_batch, n_batch, has_metrics)
                THEN /\ y' = Append(y, Target(b))
                     /\ out' = Append(out, Output(b))
                ELSE UNCHANGED <<y, out>>
       /\ num_batch' = IF train THEN num_batch + 1 ELSE num_batch
       /\ num_valid' = IF train THEN num_valid ELSE num_valid + 1
  /\ UNCHANGED <<n_batch, valid_ds, metrics, has_metrics, has_val, train_metrics,
                 valid_metrics, epoch, epochs_done, rec_pc>>
  /\ UNCHANGED <<P, Y, metricVars, searchVars, authVars, zipVars>>

\* on_epoch_end: with metrics, tr_lm = [m_fn(torch.stack(self.out),
\* torch.stack(self.y)) ...] is appended to train_metrics (torch.stack raises
\* on an empty list) and, with a validation set, last_metrics[1:] to
\* valid_metrics
OnEpochEnd ==
  /\ rec_pc = "epoch"
  /\ IF has_metrics
       THEN IF out = <<>>
              THEN /\ rec_pc' = "raised"
                   /\ UNCHANGED <<train_metrics, valid_metrics>>
              ELSE /\ train_metrics' = Append(train_metrics, tr_lm(metrics, out, y))
                   /\ valid_metrics' =
                        IF has_val
                          THEN Append(valid_metrics,
                                 [i \in 1..Len(metrics) |->
                                    [metric |-> metrics[i], valid_epoch |-> epoch]])
                          ELSE valid_metrics
                   /\ rec_pc' = "fit"
       ELSE /\ rec_pc' = "fit"
            /\ UNCHANGED <<train_metrics, valid_metrics>>
  /\ epochs_done' = IF rec_pc' = "fit" THEN epochs_done + 1 ELSE epochs_done
  /\ UNCHANGED <<n_batch, valid_ds, metrics, has_metrics, has_val, y, out, epoch,
                 num_batch, num_valid>>
  /\ UNCHANGED <<P, Y, metricVars, searchVars, authVars, zipVars>>

RecorderNext ==
  \/ RecorderNew
  \/ OnTrainBegin
  \/ OnEpochBegin
  \/ OnBatchEnd
  \/ OnEpochEnd

SpecRecorder == RecorderInit /\ [][RecorderNext]_vars

\* ------------------------------------------------- what the claims speak of
\* the threshold and the flag in effect in the calls of the metric functions
EffThreshold == Bind(threshold_arg, DefaultThreshold)
EffSigmoid == Bind(sigmoid_arg, DefaultSigmoid)

Positions == (1..NumRows(P)) \X (1..NumCols(P))

\* the label decision for a score: sigmoid first when asked, then 1 iff the
\* score is strictly greater than the threshold
Decision(x, t, sig) == IF (IF sig THEN Sigmoid(x) ELSE x) > t THEN 1 ELSE 0

\* P binarized at threshold t
BinarizedAt(t, sig) ==
  [i \in 1..NumRows(P) |-> [j \in 1..NumCols(P) |-> Decision(P.data[i][j], t, sig)]]

\* the positions where binarized P differs from Y
WrongAt(t, sig) ==
  {pos \in Positions : BinarizedAt(t, sig)[pos[1]][pos[2]] # Y.data[pos[1]][pos[2]]}

\* the rows where binarized P equals Y in every label position
CorrectRowsAt(t, sig) == {i \in 1..NumRows(P) : BinarizedAt(t, sig)[i] = Y.data[i]}

IsOne(r) == r # None /\ RatEq(r, <<1, 1>>)
IsZero(r) == r # None /\ RatEq(r, <<0, 1>>)

\* ----------------------------------------------------------------- claims
\* C2: hamming_accuracy(P, Y, t) is one minus the fraction of positions
\* where P binarized at t differs from Y.
C2_HammingOneMinusWrongFraction ==
  hamming.pc = "returned" =>
    RatEq(hamming.ret,
          <<Cardinality(Positions) - Cardinality(WrongAt(EffThreshold, EffSigmoid)),
            Cardinality(Positions)>>)

\* C3: zero_one_accuracy(P, Y, t) is the number of rows whose binarized
\* prediction equals the ground-truth row in every position, over batch_size.
C3_ZeroOneCorrectRowFraction ==
  zero_one.pc = "returned" =>
    RatEq(zero_one.ret,
          <<Cardinality(CorrectRowsAt(EffThreshold, EffSigmoid)), NumRows(P)>>)

\* C4: when P binarized equals Y in every position, both metrics are 1.0.
C4_PerfectMatchScoresOne ==
  WrongAt(EffThreshold, EffSigmoid) = {} =>
    /\ hamming.pc = "returned" => IsOne(hamming.ret)
    /\ zero_one.pc = "returned" => IsOne(zero_one.ret)

\* C5: when P binarized and Y disagree on every position, hamming_accuracy
\* is 0.0.
C5_TotalDisagreementScoresZero ==
  (hamming.pc = "returned" /\ WrongAt(EffThreshold, EffSigmoid) = Positions)
    => IsZero(hamming.ret)

\* hamming_accuracy has returned for a 2x2 batch that is wrong everywhere,
\* with a threshold of 0 and a score strictly between 0 and 1
C5_Witness ==
  /\ hamming.pc = "returned"
  /\ WrongAt(EffThreshold, EffSigmoid) = Positions
  /\ Cardinality(Positions) = 4
  /\ threshold_arg = <<0>>
  /\ P.data[1][1] = 3000
  /\ IsZero(hamming.ret)

\* C6: zero_one_accuracy(P, Y, t) == 1.0 implies hamming_accuracy(P, Y, t)
\* == 1.0 for the same (P, Y, t).
C6_ExactMatchImpliesPerfectHamming ==
  (zero_one.pc = "returned" /\ hamming.pc = "returned" /\ IsOne(zero_one.ret))
    => IsOne(hamming.ret)

\* both metrics have returned 1.0 for the same 2x2 batch with a positive label
C6_Witness ==
  /\ zero_one.pc = "returned"
  /\ hamming.pc = "returned"
  /\ IsOne(zero_one.ret)
  /\ IsOne(hamming.ret)
  /\ Cardinality(Positions) = 4
  /\ Y.data[1][1] = 1

\* C7: the tensor compared with Y holds 1 exactly where the score (after the
\* sigmoid when the flag is set) is strictly greater than the threshold, and
\* 0 elsewhere, so a score equal to the threshold gives 0.
C7_StrictBinarization ==
  /\ hamming.pc = "returned" =>
       float_(hamming.y_pred).data =
         [i \in 1..NumRows(P) |-> [j \in 1..NumCols(P) |->
            Unit * BinarizedAt(EffThreshold, EffSigmoid)[i][j]]]
  /\ zero_one.pc = "returned" =>
       float_(zero_one.y_pred).data =
         [i \in 1..NumRows(P) |-> [j \in 1..NumCols(P) |->
            Unit * BinarizedAt(EffThreshold, EffSigmoid)[i][j]]]

\* what both metric functions do when called as f(P, Y): binarize P at t
\* without a sigmoid and score the result
DefaultCallUses(t) ==
  (threshold_arg = None /\ sigmoid_arg = None) =>
    /\ hamming.pc = "returned" =>
         /\ hamming.y_pred = Tensor("bool", BinarizedAt(t, FALSE))
         /\ RatEq(hamming.ret,
                  <<Cardinality(Positions) - Cardinality(WrongAt(t, FALSE)),
                    Cardinality(Positions)>>)
    /\ zero_one.pc = "returned" =>
         /\ zero_one.y_pred = Tensor("bool", BinarizedAt(t, FALSE))
         /\ RatEq(zero_one.ret, <<Cardinality(CorrectRowsAt(t, FALSE)), NumRows(P)>>)

\* C8 (as stated): called without a threshold and without a sigmoid flag,
\* the metric functions use the threshold 0.5 and apply no sigmoid.
C8_DefaultThresholdIsHalf == DefaultCallUses(5000)

\* C8 (amended): called without a threshold and without a sigmoid flag, the
\* metric functions use the threshold 0.2 and apply no sigmoid.
C8_DefaultThresholdIsFifth == DefaultCallUses(2000)

\* both metric functions have returned from a call without threshold and
\* flag, on a batch holding a score between 0.2 and 0.5
C8_Witness ==
  /\ threshold_arg = None
  /\ sigmoid_arg = None
  /\ hamming.pc = "returned"
  /\ zero_one.pc = "returned"
  /\ \E pos \in Positions : P.data[pos[1]][pos[2]] = 3000

\* C1: for a non-empty candidate sequence get_optimal_threshold returns a
\* member of the sequence whose score is at least the score of every
\* candidate; it returns the threshold, not the score.
C1_ReturnsMaximizer ==
  (search_pc = "done" /\ thresholds # <<>>) =>
    /\ Len(scores) = Len(thresholds)
    /\ \E j \in 1..Len(thresholds) :
         /\ returned = <<thresholds[j]>>
         /\ \A l \in 1..Len(thresholds) : RatGe(scores[j], scores[l])

\* the sweep over [0.1, 0.5, 0.9] with scores 0.6, 0.8, 0.4 has returned 0.5
C1_Witness ==
  /\ search_pc = "done"
  /\ metric_function = "stub"
  /\ thresholds = <<1000, 5000, 9000>>
  /\ stub_scores[1000] = 6 /\ stub_scores[5000] = 8 /\ stub_scores[9000] = 4
  /\ returned = <<5000>>

\* the earliest position that holds the best of the scores returned so far
EarliestBest ==
  CHOOSE j \in 1..Len(scores) :
    /\ \A l \in 1..Len(scores) : RatGe(scores[j], scores[l])
    /\ \A l \in 1..(j - 1) : RatGt(scores[j], scores[l])

\* C9: the scan starts from no threshold and a running maximum of -inf and
\* replaces its best only on a strictly greater score: after any number of
\* candidates the best is the earliest one holding the best score so far,
\* and that one is returned.
C9_TiesKeepEarliest ==
  /\ search_pc \in {"scan", "done"} =>
       /\ Len(scores) = idx
       /\ IF idx = 0
          THEN optimal_threshold = None /\ metric_max = NegInf
          ELSE /\ optimal_threshold = <<thresholds[EarliestBest]>>
               /\ RatEq(metric_max, scores[EarliestBest])
  /\ search_pc = "done" => idx = Len(thresholds) /\ returned = optimal_threshold

\* the sweep over [0.5, 0.1, 0.9] with scores 0.8, 0.6, 0.8 has returned 0.5
C9_Witness ==
  /\ search_pc = "done"
  /\ metric_function = "stub"
  /\ thresholds = <<5000, 1000, 9000>>
  /\ stub_scores[5000] = 8 /\ stub_scores[1000] = 6 /\ stub_scores[9000] = 8
  /\ returned = <<5000>>

\* C10: with an empty candidate sequence get_optimal_threshold raises an
\* error; it never returns None.
C10_EmptyCandidatesRaise ==
  search_pc = "done" => (thresholds # <<>> /\ returned # None)

\* C11: with a singleton candidate list get_optimal_threshold returns that
\* candidate, whatever its score.
C11_SingletonReturned ==
  (search_pc = "done" /\ Len(thresholds) = 1) => returned = <<thresholds[1]>>

\* the sweep over the single candidate 0.9, given the lowest score, has
\* returned 0.9
C11_Witness ==
  /\ search_pc = "done"
  /\ metric_function = "stub"
  /\ thresholds = <<9000>>
  /\ stub_scores[9000] = 4
  /\ returned = <<9000>>

\* C12 (as stated): when no candidate sequence is passed, the sweep covers
\* exactly 10 evenly spaced thresholds strictly inside (0, 1).
C12_DefaultIsTenInterior ==
  (search_pc = "done" /\ thresholds_arg = None) =>
    /\ Len(scores) = 10
    /\ \A j \in 1..Len(thresholds) : 0 < thresholds[j] /\ thresholds[j] < Unit
    /\ \A j \in 1..(Len(thresholds) - 2) :
         thresholds[j + 1] - thresholds[j] = thresholds[j + 2] - thresholds[j + 1]

\* C12 (amended): when no candidate sequence is passed, the sweep covers
\* exactly 21 evenly spaced thresholds 0, 0.05, ..., 1 of [0, 1]: both 0 and
\* 1 are candidates.
C12_DefaultIsTwentyOneClosed ==
  (search_pc = "done" /\ thresholds_arg = None) =>
    /\ Len(scores) = 21
    /\ Len(thresholds) = 21
    /\ \A j \in 1..Len(thresholds) : thresholds[j] = (j - 1) * 500
    /\ thresholds[1] = 0 /\ thresholds[21] = Unit

\* a sweep called without candidates has returned
C12_Witness ==
  /\ search_pc = "done"
  /\ thresholds_arg = None
  /\ Len(scores) = Len(thresholds)
  /\ returned # None

\* the candidates, as a set
Candidates == {thresholds[j] : j \in 1..Len(thresholds)}

\* the score the metric function returned for a candidate
ScoreOf == [t \in Candidates |-> scores[CHOOSE j \in 1..Len(thresholds) : thresholds[j] = t]]

\* the whole scan of get_optimal_threshold over the candidates ts with the
\* scores f, from the best and the maximum so far
RECURSIVE Scan(_, _, _, _)
Scan(ts, f, best, max) ==
  IF ts = <<>> THEN best
  ELSE IF IsBetter(f[Head(ts)], max)
       THEN Scan(Tail(ts), f, <<Head(ts)>>, f[Head(ts)])
       ELSE Scan(Tail(ts), f, best, max)

\* the orders the candidates can be supplied in
Orders(n) == {p \in [1..n -> 1..n] : \A a, b \in 1..n : p[a] = p[b] => a = b}

\* C15: when all candidates have distinct scores, get_optimal_threshold
\* returns the same threshold for every order of the candidate list.
C15_OrderIndependent ==
  (/\ search_pc = "done"
   /\ thresholds_arg # None
   /\ \A a, b \in 1..Len(scores) : a # b => ~RatEq(scores[a], scores[b]))
    => \A p \in Orders(Len(thresholds)) :
         Scan([i \in 1..Len(thresholds) |-> thresholds[p[i]]], ScoreOf,
              InitialOptimalThreshold, InitialMetricMax) = returned

\* the sweep over three candidates with distinct scores, the best one last,
\* has returned
C15_Witness ==
  /\ search_pc = "done"
  /\ metric_function = "stub"
  /\ thresholds = <<1000, 5000, 9000>>
  /\ stub_scores[1000] = 6 /\ stub_scores[5000] = 4 /\ stub_scores[9000] = 8
  /\ returned = <<9000>>

\* C19: every candidate of the sweep, a candidate equal to 0 included, is
\* scored on the predictions binarized at that candidate (positive iff
\* score > t).
C19_EveryCandidateBinarized ==
  \A j \in 1..Len(scores) :
    /\ metric_function = "hamming_accuracy" =>
         RatEq(scores[j],
               <<Cardinality(Positions) - Cardinality(WrongAt(thresholds[j], FALSE)),
                 Cardinality(Positions)>>)
    /\ metric_function = "zero_one_accuracy" =>
         RatEq(scores[j],
               <<Cardinality(CorrectRowsAt(thresholds[j], FALSE)), NumRows(P)>>)

\* C13: whenever the shapes of P and Y differ, hamming_accuracy and
\* zero_one_accuracy fail with an error and return no score.
C13_ShapeMismatchRaises ==
  Shape(P) # Shape(Y) =>
    /\ hamming.pc # "returned"
    /\ zero_one.pc # "returned"

InUnitInterval(r) == r[2] > 0 /\ 0 <= r[1] /\ r[1] <= r[2]

\* C14: for P and Y of the same shape the values hamming_accuracy and
\* zero_one_accuracy return lie in [0, 1].
C14_ResultsInUnitInterval ==
  /\ hamming.pc = "returned" => InUnitInterval(hamming.ret)
  /\ zero_one.pc = "returned" => InUnitInterval(zero_one.ret)

\* both metrics have returned for a 2x2 batch whose first row is wrong in
\* both labels: hamming 1/2, zero-one 1/2
C14_Witness ==
  /\ hamming.pc = "returned"
  /\ zero_one.pc = "returned"
  /\ Cardinality(Positions) = 4
  /\ NumRows(P) = 2
  /\ WrongAt(EffThreshold, EffSigmoid) = {<<1, 1>>, <<1, 2>>}
  /\ RatEq(hamming.ret, <<1, 2>>)
  /\ RatEq(zero_one.ret, <<1, 2>>)

\* what a call leaves alone: the caller's matrices, arguments and candidates
CallerStateKept ==
  /\ P' = P
  /\ Y' = Y
  /\ threshold_arg' = threshold_arg
  /\ sigmoid_arg' = sigmoid_arg
  /\ thresholds_arg' = thresholds_arg
  /\ thresholds' = thresholds
  /\ metric_function' = metric_function

\* calls with the same inputs have returned the same result, whatever was
\* called in between: the same candidate twice in one sweep, and a direct
\* call against the sweep's call with the same threshold
SameInputsSameResult ==
  /\ \A a, b \in 1..Len(scores) : thresholds[a] = thresholds[b] => scores[a] = scores[b]
  /\ \A a \in 1..Len(scores) :
       (EffThreshold = thresholds[a] /\ EffSigmoid = DefaultSigmoid) =>
         /\ (metric_function = "hamming_accuracy" /\ hamming.pc = "returned")
              => hamming.ret = scores[a]
         /\ (metric_function = "zero_one_accuracy" /\ zero_one.pc = "returned")
              => zero_one.ret = scores[a]

Called(name) == \E i \in 1..Len(auth_calls) : auth_calls[i].call = name

\* the CLI attempt of the current get_auth ended in outcome
CliAttempt(outcome) ==
  /\ Len(auth_calls) > 0
  /\ auth_calls[1].call = "AzureCliAuthentication"
  /\ IF auth_calls[1].outcome = "ok"
       THEN /\ Len(auth_calls) > 1
            /\ auth_calls[2].call = "get_authentication_header"
            /\ auth_calls[2].outcome = outcome
       ELSE auth_calls[1].outcome = outcome

\* C18: get_auth tries CLI authentication first and returns it when its
\* header request succeeds; it constructs the interactive login only when
\* the CLI attempt raised an AuthenticationException; and whenever it
\* returns, it returns exactly one authentication object, the CLI one or the
\* interactive one.
C18_CliFirstThenInteractive ==
  /\ Len(auth_calls) > 0 => auth_calls[1].call = "AzureCliAuthentication"
  /\ Called("InteractiveLoginAuthentication") => CliAttempt("AuthenticationException")
  /\ CliAttempt("ok") => (auth_pc \in {"return", "returned"} /\ auth_type = CliAuth
                           /\ ~Called("InteractiveLoginAuthentication"))
  /\ auth_pc = "returned" =>
       /\ auth_ret \in {CliAuth, InteractiveAuth}
       /\ auth_ret = CliAuth <=> CliAttempt("ok")
       /\ auth_ret = InteractiveAuth <=>
            (CliAttempt("AuthenticationException")
               /\ Last(auth_calls) = Call("InteractiveLoginAuthentication", "ok"))
  /\ auth_pc = "raised" => (auth_ret = None /\ Last(auth_calls).outcome # "ok")

\* the second get_auth of get_or_create_workspace fell back to the
\* interactive login after the header request raised, and returned it
C18_Witness ==
  /\ ws_pc = "except_create"
  /\ auth_pc = "returned"
  /\ auth_ret = InteractiveAuth
  /\ Len(auth_calls) = 3
  /\ auth_calls[2] = Call("get_authentication_header", "AuthenticationException")

\* the call has done operation op
Logged(op) == \E i \in 1..Len(unzip_log) : unzip_log[i][1] = op

TrainSeen == {Batch(epoch, TRUE, i) : i \in 0..(num_batch - 1)}
ValidSeen == {Batch(epoch, FALSE, i) : i \in 0..(num_valid - 1)}

RecordedInY(b) == \E j \in 1..Len(y) : y[j] = Target(b)

\* C20: within an epoch a batch is in the buffers iff it was a training
\* batch, metrics are configured, and n_batch is None or the batch index is
\* below n_batch; the buffers hold nothing else (nothing of an earlier
\* epoch, on_epoch_begin having emptied them), so at most n_batch batches
\* when n_batch is set and every training batch when it is None.
C20_RecordsTrainingBatchesBelowNBatch ==
  rec_pc = "epoch" =>
    /\ \A b \in TrainSeen \cup ValidSeen :
         RecordedInY(b) <=>
           (b.train /\ has_metrics /\ (n_batch = None \/ b.index < n_batch[1]))
    /\ Len(out) = Len(y)
    /\ \A j \in 1..Len(y) :
         \E b \in TrainSeen : y[j] = Target(b) /\ out[j] = Output(b)
    /\ n_batch # None => Len(y) <= n_batch[1]
    /\ (n_batch = None /\ has_metrics) => Len(y) = num_batch
    /\ (num_batch = 0 /\ num_valid = 0) => (y = <<>> /\ out = <<>>)

\* second epoch, n_batch = 1: two training batches and a validation batch
\* are done and only the first training batch of this epoch is recorded
C20_Witness ==
  /\ rec_pc = "epoch"
  /\ epoch = 2
  /\ n_batch = <<1>>
  /\ has_metrics
  /\ num_batch = 2
  /\ num_valid = 1
  /\ y = <<Target(Batch(2, TRUE, 0))>>
  /\ Len(train_metrics) = 1

\* C21: between the epochs of a fit, train_metrics holds one entry per
\* epoch completed since on_train_begin when metrics are configured and none
\* otherwise, each entry holds one value per configured metric,
\* valid_metrics is as long as train_metrics when there is a validation
\* set, and right after on_train_begin both lists are empty.
C21_OneEntryPerCompletedEpoch ==
  rec_pc = "fit" =>
    /\ Len(train_metrics) = IF has_metrics THEN epochs_done ELSE 0
    /\ \A j \in 1..Len(train_metrics) : Len(train_metrics[j]) = Len(metrics)
    /\ valid_ds => Len(valid_metrics) = Len(train_metrics)
    /\ epochs_done = 0 => (train_metrics = <<>> /\ valid_metrics = <<>>)

\* two metrics and a validation set: a first epoch completed, on_train_begin
\* ran again and emptied the lists, and one more epoch has completed
C21_Witness ==
  /\ rec_pc = "fit"
  /\ epoch = 2
  /\ epochs_done = 1
  /\ valid_ds
  /\ Len(metrics) = 2
  /\ Len(train_metrics) = 1
  /\ Len(train_metrics[1]) = 2
  /\ Len(valid_metrics) = 1

\* C22: when unzip_url has raised FileExistsError, the directories and the
\* files are those that existed at the call: nothing was downloaded, nothing
\* extracted and no directory created.
C22_RaiseChangesNothing ==
  (unzip_pc = "raised" /\ unzip_exc[1] = "FileExistsError") =>
    /\ unzip_log = <<>>
    /\ files = fs0.files
    /\ dirs = fs0.dirs

====
